---- MODULE Spec2Model ----
(***************************************************************************)
(* folium_vector_icon.py: the geometry of an arrow icon.                   *)
(*                                                                         *)
(* Numbers.  Every input of the model is an integer number of pixels and   *)
(* every angle has a cosine and a sine that are multiples of 1/Den, so the *)
(* program's floats are rationals with denominator Unit = 2 * Den (the 2   *)
(* is for the halves of the widths).  A float that the program compares    *)
(* with 0 or hands to math.ceil / math.floor is a record [n, e]: the       *)
(* rational n / Unit plus e times an infinitesimal, e in {-1, 0, 1}, the   *)
(* sign of the rounding error the float carries (math.cos(math.pi / 2) is  *)
(* 6.1e-17, not 0; 5 * math.cos(atan2(3, 4) - pi / 2) is                   *)
(* 3.0000000000000004).                                                    *)
(***************************************************************************)
EXTENDS Integers, Sequences, FiniteSets, TLC

VARIABLES op, args, pc, out

vars == <<op, args, pc, out>>

\* ------------------------------------------------------------- bounds
MaxLen == 3
MaxMargin == 2
MaxBorder == 1

\* ------------------------------------------------------------ numbers
Den == 5
Unit == 2 * Den

Abs(i) == IF i < 0 THEN -i ELSE i

Sign(i) == IF i > 0 THEN 1 ELSE IF i < 0 THEN -1 ELSE 0

Max3(a, b, c) ==
  LET ab == IF a >= b THEN a ELSE b
  IN IF ab >= c THEN ab ELSE c

Real(n, e) == [n |-> n, e |-> e]

FromInt(i) == Real(i * Unit, 0)

Leq(a, b) == a.n < b.n \/ (a.n = b.n /\ a.e <= b.e)

Add(a, b) == Real(a.n + b.n, Sign(a.e + b.e))

Half(a) == Real(a.n \div 2, a.e)

\* math.ceil and math.floor of a float, as an int
Ceil(a) ==
  IF a.n % Unit = 0
  THEN (a.n \div Unit) + (IF a.e > 0 THEN 1 ELSE 0)
  ELSE (a.n \div Unit) + 1

Floor(a) ==
  IF a.n % Unit = 0
  THEN (a.n \div Unit) - (IF a.e < 0 THEN 1 ELSE 0)
  ELSE a.n \div Unit

\* ------------------------------------------------------------- angles
\* An angle is q quarter turns plus the angle of the direction d / Den of
\* the first quadrant: q * pi / 2 + atan2(d[2], d[1]).
Dirs == {<<5, 0>>, <<4, 3>>, <<3, 4>>}

Angle(q, d) == [q |-> q, d |-> d]

IsAxis(a) == a.d = <<Den, 0>>

\* angle - math.pi / 2
SubHalfPi(a) == [a EXCEPT !.q = @ - 1]

CosN(a) ==
  LET m == a.q % 4
  IN CASE m = 0 -> a.d[1]
       [] m = 1 -> -a.d[2]
       [] m = 2 -> -a.d[1]
       [] OTHER -> a.d[2]

SinN(a) ==
  LET m == a.q % 4
  IN CASE m = 0 -> a.d[2]
       [] m = 1 -> a.d[1]
       [] m = 2 -> -a.d[2]
       [] OTHER -> -a.d[1]

\* The double nearest to q * pi / 2 is a little nearer to 0 than q * pi / 2,
\* so a cosine or sine that is exactly 0 comes out as a tiny number of the
\* sign below; one that is exactly 1 or -1 comes out exact.
AxisCosE(a) == IF CosN(a) = 0 THEN Sign(a.q) * Sign(SinN(a)) ELSE 0

AxisSinE(a) == IF SinN(a) = 0 THEN -(Sign(a.q) * Sign(CosN(a))) ELSE 0

\* ------------------------------------------------------ _MetrixHandler
\* h = [length, angle, margin, rnd]; rnd = <<rx, ry>> are the signs of the
\* rounding errors of x and y for an angle off the axes, where the libm
\* result is not fixed by the model.
MetrixHandler(length, angle, margin, rnd) ==
  [length |-> length, angle |-> angle, margin |-> margin, rnd |-> rnd]

Cos(h) ==
  [n |-> CosN(h.angle),
   e |-> IF IsAxis(h.angle) THEN AxisCosE(h.angle) ELSE h.rnd[1]]

Sin(h) ==
  [n |-> SinN(h.angle),
   e |-> IF IsAxis(h.angle) THEN AxisSinE(h.angle) ELSE h.rnd[2]]

X(h) == Real(2 * h.length * Cos(h).n, IF h.length = 0 THEN 0 ELSE Cos(h).e)

Y(h) == Real(2 * h.length * Sin(h).n, IF h.length = 0 THEN 0 ELSE Sin(h).e)

\* one axis of bbox: <<far edge, near edge>> for the offset v on that axis
BboxAxisNoShift(v, margin) ==
  IF Leq(FromInt(0), v)
  THEN <<Ceil(v), -margin>>
  ELSE <<Floor(v), -margin>>

BboxAxis(v, margin) ==
  IF Leq(FromInt(0), v)
  THEN <<Ceil(v), -margin>>
  ELSE <<Floor(v), Floor(v) - margin>>

Bbox(h) ==
  LET ax == BboxAxis(X(h), h.margin)
      ay == BboxAxis(Y(h), h.margin)
  IN [x0 |-> ax[2], y0 |-> ay[2],
      x |-> Abs(ax[1]) + 2 * h.margin, y |-> Abs(ay[1]) + 2 * h.margin]

Size(h) == <<Abs(Bbox(h).x), Abs(Bbox(h).y)>>

AnchorNoAbs(h, anchor) ==
  IF anchor = "head"
  THEN <<Add(FromInt(Bbox(h).x0), X(h)), Add(FromInt(Bbox(h).y0), Y(h))>>
  ELSE IF anchor = "mid"
  THEN <<Add(FromInt(Bbox(h).x0), Half(X(h))),
         Add(FromInt(Bbox(h).y0), Half(Y(h)))>>
  ELSE <<FromInt(Bbox(h).x0), FromInt(Bbox(h).y0)>>

Anchor(h, anchor) ==
  IF anchor = "head"
  THEN <<Add(FromInt(Abs(Bbox(h).x0)), X(h)),
         Add(FromInt(Abs(Bbox(h).y0)), Y(h))>>
  ELSE IF anchor = "mid"
  THEN <<Add(FromInt(Abs(Bbox(h).x0)), Half(X(h))),
         Add(FromInt(Abs(Bbox(h).y0)), Half(Y(h)))>>
  ELSE <<FromInt(Abs(Bbox(h).x0)), FromInt(Abs(Bbox(h).y0))>>

\* rotate(x, y) with x = x2 / 2 and y = y2 / 2; the result counts 1 / Unit
RotateInverse(h, x2, y2) ==
  <<Cos(h).n * x2 + Sin(h).n * y2, Cos(h).n * y2 - Sin(h).n * x2>>

Rotate(h, x2, y2) ==
  <<Cos(h).n * x2 - Sin(h).n * y2, Sin(h).n * x2 + Cos(h).n * y2>>

\* ---------------------------------------------------------- VectorIcon
VectorIconHead(width, length) == [width |-> width, length |-> length]

VectorIconBody(width) == [width |-> width]

DEFAULT_HEAD == VectorIconHead(8, 10)

DEFAULT_BODY == VectorIconBody(2)

\* margin=max(head.length, head.width, body.width)
Margin(head, body) == Max3(head.length, head.width, body.width)

ShaftUnclamped(length, head) == length - head.length

\* max(length - head.length, 0)
Shaft(length, head) ==
  IF length - head.length >= 0 THEN length - head.length ELSE 0

RECURSIVE Digits(_)
Digits(v) == IF v < 10 THEN 1 ELSE 1 + Digits(v \div 10)

RECURSIVE Pow10(_)
Pow10(k) == IF k = 0 THEN 1 ELSE 10 * Pow10(k - 1)

\* "{:.7g}": v / Unit rounded to 7 significant digits (half to even)
Fmt7g(v) ==
  IF Digits(Abs(v)) <= 7
  THEN v
  ELSE LET p == Pow10(Digits(Abs(v)) - 7)
           lo == Abs(v) \div p
           r == Abs(v) % p
           up == 2 * r > p \/ (2 * r = p /\ lo % 2 = 1)
       IN Sign(v) * p * (IF up THEN lo + 1 ELSE lo)

Fmt(xy) == <<Fmt7g(xy[1]), Fmt7g(xy[2])>>

\* the numbers of the path's d attribute: M, then six l
Path(handler, length, head, body) ==
  << Fmt(Rotate(handler, 0, -body.width)),
     Fmt(Rotate(handler, 0, 2 * body.width)),
     Fmt(Rotate(handler, 2 * Shaft(length, head), 0)),
     Fmt(Rotate(handler, 0, head.width - body.width)),
     Fmt(Rotate(handler, 2 * head.length, -head.width)),
     Fmt(Rotate(handler, -2 * head.length, -head.width)),
     Fmt(Rotate(handler, 0, head.width - body.width)) >>

RECURSIVE Gcd(_, _)
Gcd(a, b) == IF b = 0 THEN a ELSE Gcd(b, a % b)

\* length / head.length for head.length > 0, as the fraction <<num, den>>
Scale(length, head) ==
  <<length \div Gcd(length, head.length),
    head.length \div Gcd(length, head.length)>>

\* the transform of <g>: <<>> for none, the fraction k for scale(k)
TransformLeq(length, head) ==
  IF head.length <= length THEN <<>> ELSE Scale(length, head)

Transform(length, head) ==
  IF head.length < length THEN <<>> ELSE Scale(length, head)

Group(length, head, color, border_width, border_color) ==
  [stroke |-> IF border_color # "None" THEN border_color ELSE color,
   fill |-> color,
   stroke_width |-> border_width,
   transform |-> Transform(length, head)]

AddHalfPi(a) == [a EXCEPT !.q = @ + 1]

\* angle = angle - math.pi / 2
AdjustAngle(a) == SubHalfPi(a)

\* VectorIcon.__init__; a holds the arguments and a.rnd the rounding
VectorIconInit(a) ==
  LET angle == AdjustAngle(a.angle)
      handler == MetrixHandler(a.length, angle, Margin(a.head, a.body), a.rnd)
  IN IF a.head.length = 0
     THEN [status |-> "ZeroDivisionError"]
     ELSE [status |-> "ok",
           html |-> [viewBox |-> Bbox(handler),
                     g |-> Group(a.length, a.head, a.color, a.border_width,
                                 a.border_color),
                     path |-> Path(handler, a.length, a.head, a.body)],
           icon_size |-> Size(handler),
           icon_anchor |-> Anchor(handler, a.anchor),
           popup_anchor |-> a.popup_anchor,
           class_name |-> a.class_name]

\* math.hypot on components whose norm is an integer
Hypot(x, y) == CHOOSE r \in 0 .. (Abs(x) + Abs(y)) : r * r = x * x + y * y

\* math.atan2(y, x), in (-pi, pi], on components whose direction is on the
\* 1 / Den grid
Atan2(y, x) ==
  LET r == Hypot(x, y)
      u == IF r = 0 THEN Den ELSE (x * Den) \div r
      v == IF r = 0 THEN 0 ELSE (y * Den) \div r
  IN CASE v >= 0 /\ u > 0 -> Angle(0, <<u, v>>)
       [] v > 0 /\ u <= 0 -> Angle(1, <<v, -u>>)
       [] v = 0 /\ u < 0 -> Angle(2, <<-u, 0>>)
       [] v < 0 /\ u < 0 -> Angle(-2, <<-u, -v>>)
       [] OTHER -> Angle(-1, <<-v, u>>)

FromCompDefaultAnchor(a) ==
  VectorIconInit(
    [length |-> Hypot(a.components[2], a.components[1]),
     angle |-> Atan2(a.components[2], a.components[1]),
     rnd |-> a.rnd,
     head |-> a.head, body |-> a.body, color |-> a.color,
     border_width |-> a.border_width, border_color |-> a.border_color,
     popup_anchor |-> a.popup_anchor, class_name |-> a.class_name,
     anchor |-> "tail"])

\* VectorIcon.from_comp
FromComp(a) ==
  LET intensity == Hypot(a.components[2], a.components[1])
      angle == Atan2(a.components[2], a.components[1])
  IN VectorIconInit(
       [length |-> intensity,
        angle |-> angle,
        rnd |-> a.rnd,
        head |-> a.head,
        body |-> a.body,
        color |-> a.color,
        border_width |-> a.border_width,
        border_color |-> a.border_color,
        popup_anchor |-> a.popup_anchor,
        class_name |-> a.class_name,
        anchor |-> a.anchor])

\* -------------------------------------------------------------- inputs
AnchorKinds == {"tail", "mid", "head"}

AnchorInputs == AnchorKinds \cup {"nose"}

Lengths == (0 .. MaxLen) \cup {5, 10, 20, 100}

\* the two axes are rounded apart, so each sign is tried on each axis
Rounding == {<<0, 0>>, <<1, -1>>, <<-1, 1>>}

\* the angles from -pi to 3 * pi / 2, each with the rounding it can have
AngleInputs ==
  {<<Angle(q, d), r>> : q \in -2 .. 3, d \in {<<Den, 0>>}, r \in {<<0, 0>>}}
    \cup {<<Angle(q, d), r>> :
            q \in -2 .. 1, d \in Dirs \ {<<Den, 0>>}, r \in Rounding}

Heads == {VectorIconHead(w, l) : w \in {0, 8}, l \in {0, 10, 20}}

Bodies == {VectorIconBody(w) : w \in {0, 2, 12}}

BorderWidths == (0 .. MaxBorder) \cup {30}

HandlerArgs ==
  {[length |-> l, angle |-> ar[1], rnd |-> ar[2], margin |-> m, anchor |-> k] :
     l \in Lengths, ar \in AngleInputs,
     m \in (0 .. MaxMargin) \cup {10}, k \in AnchorInputs}

IconArgs ==
  {[length |-> l, angle |-> ar[1], rnd |-> ar[2], head |-> hd, body |-> bd,
    color |-> "black", border_width |-> bw, border_color |-> "None",
    anchor |-> k, popup_anchor |-> <<>>, class_name |-> "empty"] :
     l \in Lengths, ar \in AngleInputs, hd \in Heads, bd \in Bodies,
     bw \in BorderWidths, k \in AnchorInputs}

\* (latitude, longitude) components of norm 0, 5 and 10
GridPoints ==
  {<<u, v>> \in (-Den .. Den) \X (-Den .. Den) : u * u + v * v = Den * Den}

Components ==
  {<<0, 0>>} \cup {<<k * p[1], k * p[2]>> : k \in 1 .. 2, p \in GridPoints}

CompRounding(c) ==
  IF c[1] = 0 \/ c[2] = 0 THEN {<<0, 0>>} ELSE Rounding

CompArgs ==
  {[components |-> cr[1], rnd |-> cr[2], head |-> hd, body |-> DEFAULT_BODY,
    color |-> co, border_width |-> bw, border_color |-> bc,
    anchor |-> k, popup_anchor |-> pa, class_name |-> cn] :
     cr \in {<<c, r>> \in Components \X Rounding : r \in CompRounding(c)},
     hd \in {DEFAULT_HEAD, VectorIconHead(10, 20)},
     co \in {"black", "red"}, bw \in {0, 30}, bc \in {"None", "blue"},
     k \in AnchorInputs, pa \in {<<>>, <<0, -10>>},
     cn \in {"empty", "arrow"}}

NoResult == [status |-> "none"]

\* ------------------------------------------------------------- actions
\* _MetrixHandler(length, angle, margin): bbox, size() and anchor(kind)
CallMetrixHandler ==
  /\ pc = "call"
  /\ op = "_MetrixHandler"
  /\ LET h == MetrixHandler(args.length, args.angle, args.margin, args.rnd)
     IN out' = [status |-> "ok", bbox |-> Bbox(h),
                icon_size |-> Size(h), icon_anchor |-> Anchor(h, args.anchor)]
  /\ pc' = "done"
  /\ UNCHANGED <<op, args>>

\* VectorIcon(length, angle, ...)
CallVectorIcon ==
  /\ pc = "call"
  /\ op = "VectorIcon"
  /\ out' = VectorIconInit(args)
  /\ pc' = "done"
  /\ UNCHANGED <<op, args>>

\* VectorIcon.from_comp(components, ...)
CallFromComp ==
  /\ pc = "call"
  /\ op = "from_comp"
  /\ out' = FromComp(args)
  /\ pc' = "done"
  /\ UNCHANGED <<op, args>>

Init ==
  /\ pc = "call"
  /\ out = NoResult
  /\ \/ op = "_MetrixHandler" /\ args \in HandlerArgs
     \/ op = "VectorIcon" /\ args \in IconArgs
     \/ op = "from_comp" /\ args \in CompArgs

Next ==
  \/ CallMetrixHandler
  \/ CallVectorIcon
  \/ CallFromComp

Spec == Init /\ [][Next]_vars

\* ------------------------------------------------------------- claims
Done(o) == pc = "done" /\ op = o

OkIcon == pc = "done" /\ op \in {"VectorIcon", "from_comp"} /\ out.status = "ok"

\* the arguments the constructor runs with, and the resolver it builds
IconLength ==
  IF op = "from_comp" THEN Hypot(args.components[2], args.components[1])
  ELSE args.length

IconAngle ==
  IF op = "from_comp" THEN Atan2(args.components[2], args.components[1])
  ELSE args.angle

Resolver ==
  IF op = "_MetrixHandler"
  THEN MetrixHandler(args.length, args.angle, args.margin, args.rnd)
  ELSE MetrixHandler(IconLength, SubHalfPi(IconAngle),
                     Max3(args.head.length, args.head.width, args.body.width),
                     args.rnd)

\* SVG: the k-th vertex of the path, the sum of M and the first k - 1 l
RECURSIVE PathPoint(_, _)
PathPoint(path, k) ==
  IF k = 0 THEN <<0, 0>>
  ELSE <<PathPoint(path, k - 1)[1] + path[k][1],
         PathPoint(path, k - 1)[2] + path[k][2]>>

\* SVG: the scale of <g> as a fraction, 1 without a transform
DrawnScale ==
  IF out.html.g.transform = <<>> THEN <<1, 1>> ELSE out.html.g.transform

\* the point p (in 1 / Unit, before the scale) widened by pad on every side
\* is drawn inside the view-box
Inside(p, pad) ==
  LET num == DrawnScale[1]
      den == DrawnScale[2]
      b == out.html.viewBox
  IN /\ b.x0 * Unit * den <= (p[1] - pad) * num
     /\ (p[1] + pad) * num <= (b.x0 + b.x) * Unit * den
     /\ b.y0 * Unit * den <= (p[2] - pad) * num
     /\ (p[2] + pad) * num <= (b.y0 + b.y) * Unit * den

\* C1: an anchor kind outside {tail, mid, head} is reported as an error
\* naming the value, by _MetrixHandler.anchor and by both constructors.
C1_InvalidAnchorRejected ==
  (pc = "done" /\ args.anchor \notin AnchorKinds)
    => out.status = "ValueError"

\* C2: the bounding box is at least 2 * margin wide and high and holds the
\* tip (x, y), whatever the signs of x and y.
C2_BboxHoldsTip ==
  Done("_MetrixHandler") =>
    /\ out.bbox.x >= 2 * args.margin
    /\ out.bbox.y >= 2 * args.margin
    /\ Leq(FromInt(out.bbox.x0), X(Resolver))
    /\ Leq(X(Resolver), FromInt(out.bbox.x0 + out.bbox.x))
    /\ Leq(FromInt(out.bbox.y0), Y(Resolver))
    /\ Leq(Y(Resolver), FromInt(out.bbox.y0 + out.bbox.y))

C2_Witness ==
  /\ Done("_MetrixHandler")
  /\ args.margin > 0
  /\ ~Leq(FromInt(0), X(Resolver))
  /\ Leq(FromInt(0), Y(Resolver))
  /\ Abs(X(Resolver).n) > args.margin * Unit

\* C3: for each of tail, mid and head the anchor lies in
\* [0, width] x [0, height] of size().
C3_AnchorInSize ==
  (pc = "done" /\ out.status = "ok" /\ args.anchor \in AnchorKinds) =>
    /\ Leq(FromInt(0), out.icon_anchor[1])
    /\ Leq(out.icon_anchor[1], FromInt(out.icon_size[1]))
    /\ Leq(FromInt(0), out.icon_anchor[2])
    /\ Leq(out.icon_anchor[2], FromInt(out.icon_size[2]))

C3_Witness ==
  /\ Done("_MetrixHandler")
  /\ args.anchor = "head"
  /\ args.margin > 0
  /\ ~Leq(FromInt(0), X(Resolver))
  /\ ~Leq(FromInt(0), Y(Resolver))

C5_StrokeInsideViewBox ==
  OkIcon =>
    \A k \in 1 .. 7 :
      Inside(PathPoint(out.html.path, k), out.html.g.stroke_width * Den)

C7_ZeroLengthConstructs ==
  (Done("VectorIcon") /\ args.length = 0) =>
    /\ out.status = "ok"
    /\ out.icon_size =
         <<2 * Max3(args.head.length, args.head.width, args.body.width),
           2 * Max3(args.head.length, args.head.width, args.body.width)>>

\* C8: the angle runs clockwise from screen-up: the drawn tip of
\* VectorIcon(L, angle) is at (L * sin(angle), -L * cos(angle)), that is
\* (0, -L), (L, 0), (0, L), (-L, 0) for 0, pi / 2, pi, 3 * pi / 2; and
\* length 100 at pi / 2 with the default head and body gives the view-box
\* -10 -10 120 20, the size (120, 20) and the tail anchor (10, 10).
C8_Tip == PathPoint(out.html.path, 5)

C10_TailMid2 ==
  <<PathPoint(out.html.path, 1)[1] + PathPoint(out.html.path, 2)[1],
    PathPoint(out.html.path, 1)[2] + PathPoint(out.html.path, 2)[2]>>

====
